---- MODULE Spec2Model ----
(***************************************************************************)
(* Lending-management client (App component): the reconciliation effect    *)
(* (fine accrual and rank demotion) and the handlers that change loans and *)
(* users.                                                                  *)
(*                                                                         *)
(* Numbers.  Amounts are multiples of 1000 currency units; for those the   *)
(* IEEE-754 products amount * 0.3 and amount * 0.001 * diffDays of the     *)
(* source are exact integers, so the integer arithmetic below computes the *)
(* very values the source computes.                                        *)
(* Dates.  A due date is the text "dd/mm/yyyy", kept here as the triple    *)
(* <<d, m, y>> that split('/').map(Number) yields; a Date truncated to     *)
(* midnight is the number of whole days since 01/01/2026 (a time zone      *)
(* without daylight saving, so two midnights differ by whole days).        *)
(* A loan without a fine field (undefined) is a loan with fine 0: for the  *)
(* amounts above the first computed fine is at least 1000, so both are     *)
(* replaced alike.                                                         *)
(***************************************************************************)
EXTENDS Integers, Sequences, FiniteSets, TLC

VARIABLES
    today,            \* new Date() truncated to midnight, as a day number
    loans,            \* useState<LoanRecord[]>
    registeredUsers,  \* useState<User[]>
    user,             \* useState<User | null>: <<>> or <<record>>
    systemBudget,     \* useState<number>
    rankProfit,       \* useState<number>
    notifications,    \* useState<Notification[]>: the user ids that own one
    registerError,    \* useState<string | null>: TRUE when a message is set
    isInitialized,    \* useState(false): the first fetch attempt has completed
    reconPending,     \* the reconciliation effect is scheduled (a dependency changed)
    persistPending,   \* the 2 s timer of the persist effect is armed
    savedUser,        \* localStorage 'vnv_user': <<>> or <<record>>
    server,           \* what the server stores: users, loans, notifications,
                      \* budget, rankProfit
    retries,          \* the fetchData call under way: <<>> or <<retries left>>
    attempts,         \* history: the attempts the last fetchData call has made
    fetched,          \* history: a fetch attempt has taken the answer of /api/data
    deleted,          \* history: the user ids handleDeleteUser was called with
    pre               \* history: what the last reconciliation pass read

vars == <<today, loans, registeredUsers, user, systemBudget, rankProfit,
          notifications, registerError, isInitialized, reconPending,
          persistPending, savedUser, server, retries, attempts, fetched,
          deleted, pre>>

\* the persist timer, the browser's storage and the server
netVars == <<isInitialized, persistPending, savedUser, server, retries,
             attempts, fetched, deleted>>

-----------------------------------------------------------------------------
(* Bounds of the model *)

MaxUsers == 2
MaxLoans == 1
MaxSeq == 1
MaxSwing == 2
MaxProfit == 150000

-----------------------------------------------------------------------------
(* Program constants *)

ProgressCap == 10
FinePerMille == 1000
InitialBudget == 30000000
RegisterLimit == 2000000
NearMonthEnd == 10

Min(a, b) == IF a <= b THEN a ELSE b
Max(a, b) == IF a >= b THEN a ELSE b

-----------------------------------------------------------------------------
(* Calendar: what new Date(y, m - 1, d) and toLocaleDateString compute *)

IsLeap(y) == (y % 4 = 0 /\ y % 100 # 0) \/ y % 400 = 0

DaysInMonth(m, y) ==
    IF m = 2 THEN (IF IsLeap(y) THEN 29 ELSE 28)
    ELSE IF m \in {4, 6, 9, 11} THEN 30 ELSE 31

DaysInYear(y) == IF IsLeap(y) THEN 366 ELSE 365

RECURSIVE DaysBeforeMonth(_, _)
DaysBeforeMonth(m, y) ==
    IF m <= 1 THEN 0 ELSE DaysBeforeMonth(m - 1, y) + DaysInMonth(m - 1, y)

RECURSIVE DaysBeforeYear(_)
DaysBeforeYear(y) ==
    IF y <= 2026 THEN 0 ELSE DaysBeforeYear(y - 1) + DaysInYear(y - 1)

\* new Date(y, m0, d) with a 0-based month; a month past December rolls into
\* the next year, a day past the month's end into the next month.
DateOf(y, m0, d) ==
    DaysBeforeYear(y + (m0 \div 12)) + DaysBeforeMonth((m0 % 12) + 1, y + (m0 \div 12)) + d - 1

\* getFullYear / getMonth (0-based) / getDate of a day number
RECURSIVE YearOf(_, _)
YearOf(n, y) == IF n < DaysInYear(y) THEN y ELSE YearOf(n - DaysInYear(y), y + 1)

GetFullYear(n) == YearOf(n, 2026)

RECURSIVE MonthOf(_, _, _)
MonthOf(n, m, y) ==
    IF n < DaysInMonth(m, y) THEN m ELSE MonthOf(n - DaysInMonth(m, y), m + 1, y)

GetMonth(n) == MonthOf(n - DaysBeforeYear(GetFullYear(n)), 1, GetFullYear(n)) - 1

GetDate(n) == n - DateOf(GetFullYear(n), GetMonth(n), 1) + 1

\* toLocaleDateString('vi-VN', 2-digit day, 2-digit month, numeric year)
ToLocaleDateString(n) == <<GetDate(n), GetMonth(n) + 1, GetFullYear(n)>>

\* Number(text) of a field that is not a number, and the time value of an
\* invalid Date
NaN == -1

\* split('/').map(Number) left a component that is not a number (a text
\* without two slashes yields fewer than three fields: the missing ones are
\* undefined, NaN to new Date)
IsNaNDate(date) == \E k \in 1..3 : date[k] = NaN

\* loan.date.split('/').map(Number), then new Date(y, m - 1, d)
ParseDueDate(date) ==
    IF IsNaNDate(date) THEN NaN ELSE DateOf(date[3], date[2] - 1, date[1])

-----------------------------------------------------------------------------
(* Reconciliation effect, step 1: fines *)

rankOrder == <<"standard", "bronze", "silver", "gold", "diamond">>

Ranks == {rankOrder[i] : i \in 1..Len(rankOrder)}

\* the LoanRecord statuses, without their diacritics
Statuses == {"CHO DUYET", "DA DUYET", "DANG GIAI NGAN", "DANG NO",
             "CHO TAT TOAN", "DA TAT TOAN", "BI TU CHOI"}

\* a mutant: an approved loan counts as active too
IsActiveStatusOrApproved(s) ==
    s \in {"DANG NO", "CHO TAT TOAN", "DANG GIAI NGAN", "DA DUYET"}

IsActiveStatus(s) == s \in {"DANG NO", "CHO TAT TOAN", "DANG GIAI NGAN"}

\* a mutant: the due date itself counts as overdue
IsOverdueOnDueDate(day, date) == day >= ParseDueDate(date)

\* today > dueDate; a comparison with an invalid Date is false
IsOverdue(day, date) == ParseDueDate(date) # NaN /\ day > ParseDueDate(date)

\* Math.ceil(diffTime / (1000 * 60 * 60 * 24))
DiffDays(day, date) == day - ParseDueDate(date)

\* loan.amount * 0.3
MaxFine(amount) == (amount * 3) \div 10

\* a mutant: 1% a day instead of 0.1%
CalculatedFinePerCent(amount, diffDays) == (amount * diffDays) \div 100

\* Math.floor(loan.amount * 0.001 * diffDays)
CalculatedFine(amount, diffDays) == (amount * diffDays) \div FinePerMille

\* a mutant: the cap is left out
NewFineUncapped(amount, diffDays) == CalculatedFine(amount, diffDays)

\* Math.min(maxFine, calculatedFine)
NewFine(amount, diffDays) == Min(MaxFine(amount), CalculatedFine(amount, diffDays))

\* a mutant: the replaced copy also marks the loan as outstanding
ReconLoanMarksOverdue(loan, day) ==
    IF IsActiveStatus(loan.status) /\ IsOverdue(day, loan.date)
          /\ loan.fine # NewFine(loan.amount, DiffDays(day, loan.date))
    THEN [loan EXCEPT !.fine = NewFine(loan.amount, DiffDays(day, loan.date)),
                      !.status = "DANG NO"]
    ELSE loan

ReconLoan(loan, day) ==
    IF IsActiveStatus(loan.status) /\ IsOverdue(day, loan.date)
          /\ loan.fine # NewFine(loan.amount, DiffDays(day, loan.date))
    THEN [loan EXCEPT !.fine = NewFine(loan.amount, DiffDays(day, loan.date))]
    ELSE loan

NewLoans(ls, day) == [i \in 1..Len(ls) |-> ReconLoan(ls[i], day)]

\* a mutant: the flag is raised whenever an active loan is overdue
LoansUpdatedWhenOverdue(ls, day) ==
    \E i \in 1..Len(ls) :
        IsActiveStatus(ls[i].status) /\ IsOverdue(day, ls[i].date)

\* loansUpdated: some loan passed the test loan.fine !== newFine
LoansUpdated(ls, day) ==
    \E i \in 1..Len(ls) :
        /\ IsActiveStatus(ls[i].status)
        /\ IsOverdue(day, ls[i].date)
        /\ ls[i].fine # NewFine(ls[i].amount, DiffDays(day, ls[i].date))

-----------------------------------------------------------------------------
(* Reconciliation effect, step 2: rank demotion *)

RankIdx(r) == CHOOSE i \in 1..Len(rankOrder) : rankOrder[i] = r

\* a mutant: the loans are not filtered by owner
OverdueDayCountsAnyUser(uid, ls, day) ==
    {DiffDays(day, ls[i].date) :
        i \in {j \in 1..Len(ls) : /\ IsActiveStatus(ls[j].status)
                                  /\ IsOverdue(day, ls[j].date)}}

\* the overdue-day counts of the user's active loans
OverdueDayCounts(uid, ls, day) ==
    {DiffDays(day, ls[i].date) :
        i \in {j \in 1..Len(ls) : /\ ls[j].userId = uid
                                  /\ IsActiveStatus(ls[j].status)
                                  /\ IsOverdue(day, ls[j].date)}}

RECURSIVE SetMax(_)
SetMax(S) ==
    IF S = {} THEN 0
    ELSE LET x == CHOOSE v \in S : TRUE IN Max(x, SetMax(S \ {x}))

RECURSIVE SetSum(_)
SetSum(S) ==
    IF S = {} THEN 0
    ELSE LET x == CHOOSE v \in S : TRUE IN x + SetSum(S \ {x})

\* a mutant: the overdue days of the loans add up
MaxDiffDaysSum(uid, ls, day) == SetSum(OverdueDayCounts(uid, ls, day))

MaxDiffDays(uid, ls, day) == SetMax(OverdueDayCounts(uid, ls, day))

\* the walk's locals: currentRank, currentProgress, remainingDays
WalkState(r, p, d) == [rank |-> r, progress |-> p, remaining |-> d]

\* a mutant: the step down from diamond consumes no day
DiamondStepFree(w) ==
    IF w.rank = "diamond"
    THEN WalkState("gold", ProgressCap, w.remaining)
    ELSE w

\* a mutant: the step down from diamond keeps the stored progress
DiamondStepKeepsProgress(w) ==
    IF w.rank = "diamond"
    THEN WalkState("gold", w.progress, w.remaining - 1)
    ELSE w

\* if (currentRank === 'diamond') { ... }
DiamondStep(w) ==
    IF w.rank = "diamond"
    THEN WalkState("gold", ProgressCap, w.remaining - 1)
    ELSE w

\* a mutant: the rank step itself costs no day
WalkBodyNoStepCost(w) ==
    IF w.progress >= w.remaining
    THEN WalkState(w.rank, w.progress - w.remaining, 0)
    ELSE IF RankIdx(w.rank) > 1
         THEN WalkState(rankOrder[RankIdx(w.rank) - 1], ProgressCap,
                        w.remaining - w.progress)
         ELSE WalkState(w.rank, w.progress, 0)

\* a mutant: progress equal to the remaining days is not enough to absorb them
WalkBodyStrict(w) ==
    IF w.progress > w.remaining
    THEN WalkState(w.rank, w.progress - w.remaining, 0)
    ELSE IF RankIdx(w.rank) > 1
         THEN WalkState(rankOrder[RankIdx(w.rank) - 1], ProgressCap,
                        w.remaining - (w.progress + 1))
         ELSE WalkState(w.rank, w.progress, 0)

\* a mutant: the progress is refilled but the rank is not lowered
WalkBodyKeepsRank(w) ==
    IF w.progress >= w.remaining
    THEN WalkState(w.rank, w.progress - w.remaining, 0)
    ELSE IF RankIdx(w.rank) > 1
         THEN WalkState(w.rank, ProgressCap, w.remaining - (w.progress + 1))
         ELSE WalkState(w.rank, w.progress, 0)

\* one iteration of the while loop's body
WalkBody(w) ==
    IF w.progress >= w.remaining
    THEN WalkState(w.rank, w.progress - w.remaining, 0)
    ELSE IF RankIdx(w.rank) > 1
         THEN WalkState(rankOrder[RankIdx(w.rank) - 1], ProgressCap,
                        w.remaining - (w.progress + 1))
         ELSE WalkState(w.rank, w.progress, 0)

\* while (remainingDays > 0 && currentRank !== 'standard')
RECURSIVE WalkLoop(_)
WalkLoop(w) ==
    IF w.remaining > 0 /\ w.rank # "standard" THEN WalkLoop(WalkBody(w)) ELSE w

\* a mutant: the progress at standard is not floored at 0
StandardClampNoFloor(w) ==
    IF w.rank = "standard" /\ w.remaining > 0
    THEN WalkState(w.rank, w.progress - w.remaining, 0)
    ELSE w

\* a mutant: days left over at standard refill the progress like a rank step
StandardClampRefills(w) ==
    IF w.rank = "standard" /\ w.remaining > 0
    THEN WalkState(w.rank,
                   IF w.progress >= w.remaining THEN w.progress - w.remaining
                   ELSE ProgressCap,
                   0)
    ELSE w

\* if (currentRank === 'standard' && remainingDays > 0) { ... }
StandardClamp(w) ==
    IF w.rank = "standard" /\ w.remaining > 0
    THEN WalkState(w.rank, Max(0, w.progress - w.remaining), 0)
    ELSE w

DemotionWalk(r, p, d) == StandardClamp(WalkLoop(DiamondStep(WalkState(r, p, d))))

RankLimit(r, old) ==
    IF r = "standard" THEN 2000000
    ELSE IF r = "bronze" THEN 3000000
    ELSE IF r = "silver" THEN 4000000
    ELSE IF r = "gold" THEN 5000000
    ELSE IF r = "diamond" THEN 10000000
    ELSE old

\* a mutant: the balance is not clamped to the new limit
ReconUserKeepsBalance(u, ls, day) ==
    IF u.isAdmin \/ MaxDiffDays(u.id, ls, day) <= 0 THEN u
    ELSE LET w == DemotionWalk(u.rank, u.rankProgress, MaxDiffDays(u.id, ls, day))
             newLimit == RankLimit(w.rank, u.totalLimit)
         IN IF w.rank # u.rank \/ w.progress # u.rankProgress
            THEN [u EXCEPT !.rank = w.rank,
                           !.rankProgress = w.progress,
                           !.totalLimit = newLimit]
            ELSE u

\* a mutant: admin records are walked like the others
ReconUserAdminToo(u, ls, day) ==
    IF MaxDiffDays(u.id, ls, day) <= 0 THEN u
    ELSE LET w == DemotionWalk(u.rank, u.rankProgress, MaxDiffDays(u.id, ls, day))
             newLimit == RankLimit(w.rank, u.totalLimit)
         IN IF w.rank # u.rank \/ w.progress # u.rankProgress
            THEN [u EXCEPT !.rank = w.rank,
                           !.rankProgress = w.progress,
                           !.totalLimit = newLimit,
                           !.balance = Min(newLimit, u.balance)]
            ELSE u

\* a mutant: the walk runs without the test maxDiffDays > 0
ReconUserNoGuard(u, ls, day) ==
    IF u.isAdmin THEN u
    ELSE LET w == DemotionWalk(u.rank, u.rankProgress, MaxDiffDays(u.id, ls, day))
             newLimit == RankLimit(w.rank, u.totalLimit)
         IN IF w.rank # u.rank \/ w.progress # u.rankProgress
            THEN [u EXCEPT !.rank = w.rank,
                           !.rankProgress = w.progress,
                           !.totalLimit = newLimit,
                           !.balance = Min(newLimit, u.balance)]
            ELSE u

ReconUser(u, ls, day) ==
    IF u.isAdmin \/ MaxDiffDays(u.id, ls, day) <= 0 THEN u
    ELSE LET w == DemotionWalk(u.rank, u.rankProgress, MaxDiffDays(u.id, ls, day))
             newLimit == RankLimit(w.rank, u.totalLimit)
         IN IF w.rank # u.rank \/ w.progress # u.rankProgress
            THEN [u EXCEPT !.rank = w.rank,
                           !.rankProgress = w.progress,
                           !.totalLimit = newLimit,
                           !.balance = Min(newLimit, u.balance)]
            ELSE u

NewUsers(us, ls, day) == [i \in 1..Len(us) |-> ReconUser(us[i], NewLoans(ls, day), day)]

\* usersUpdated: some user passed the test on (currentRank, currentProgress)
UsersUpdated(us, ls, day) ==
    \E i \in 1..Len(us) :
        /\ ~us[i].isAdmin
        /\ MaxDiffDays(us[i].id, NewLoans(ls, day), day) > 0
        /\ LET w == DemotionWalk(us[i].rank, us[i].rankProgress,
                                 MaxDiffDays(us[i].id, NewLoans(ls, day), day))
           IN w.rank # us[i].rank \/ w.progress # us[i].rankProgress

\* newUsers.find(u => u.id === user.id)
FindUser(us, uid) ==
    LET hits == {i \in 1..Len(us) : us[i].id = uid}
    IN IF hits = {} THEN <<>>
       ELSE <<us[CHOOSE i \in hits : \A j \in hits : i <= j]>>

\* a mutant: the cached user is not refreshed
RefreshedUserNever(me, us, usersUpdated) == me

\* setUser(updatedMe) when the users were updated and a non-admin is signed in
RefreshedUser(me, us, usersUpdated) ==
    IF usersUpdated /\ Len(me) = 1 /\ ~me[1].isAdmin /\ Len(FindUser(us, me[1].id)) = 1
    THEN FindUser(us, me[1].id)
    ELSE me

\* passes: how many passes ran in a row up to the last step (0, 1, 2 = two or
\* more); today, loans, users: the inputs of the last of them; setLoans,
\* setUsers: whether it called setLoans, setRegisteredUsers
NoPass ==
    [passes |-> 0, today |-> 0, loans |-> <<>>, users |-> <<>>,
     setLoans |-> FALSE, setUsers |-> FALSE]

PassRead(loansUpdated, usersUpdated) ==
    [passes |-> IF pre.passes = 0 THEN 1 ELSE 2,
     today |-> today, loans |-> loans, users |-> registeredUsers,
     setLoans |-> loansUpdated, setUsers |-> usersUpdated]

\* a mutant: the pass does not wait for the first fetch attempt
ReconcileBeforeLoad ==
    /\ reconPending
    /\ LET newLoans == NewLoans(loans, today)
           newUsers == NewUsers(registeredUsers, loans, today)
           loansUpdated == LoansUpdated(loans, today)
           usersUpdated == UsersUpdated(registeredUsers, loans, today)
       IN /\ loans' = IF loansUpdated THEN newLoans ELSE loans
          /\ registeredUsers' = IF usersUpdated THEN newUsers ELSE registeredUsers
          /\ user' = RefreshedUser(user, newUsers, usersUpdated)
          /\ reconPending' = (loansUpdated \/ usersUpdated)
          /\ pre' = PassRead(loansUpdated, usersUpdated)
    /\ UNCHANGED <<today, systemBudget, rankProfit, notifications, registerError>>

Reconcile ==
    /\ reconPending
    /\ isInitialized
    /\ LET newLoans == NewLoans(loans, today)
           newUsers == NewUsers(registeredUsers, loans, today)
           loansUpdated == LoansUpdated(loans, today)
           usersUpdated == UsersUpdated(registeredUsers, loans, today)
       IN /\ loans' = IF loansUpdated THEN newLoans ELSE loans
          /\ registeredUsers' = IF usersUpdated THEN newUsers ELSE registeredUsers
          /\ user' = RefreshedUser(user, newUsers, usersUpdated)
          /\ reconPending' = (loansUpdated \/ usersUpdated)
          /\ pre' = PassRead(loansUpdated, usersUpdated)
    /\ UNCHANGED <<today, systemBudget, rankProfit, notifications, registerError>>

-----------------------------------------------------------------------------
(* Handlers of the App component.  A handler runs only when no effect is     *)
(* pending: React runs the scheduled effects before the next event.         *)

UserIds == {"1000"}

Phones == {"0900000001"}

Amounts == {1000000, 2000000}

AdminActions == {"APPROVE", "DISBURSE", "SETTLE", "REJECT"}

\* the ranks a customer asks for
UpgradeTargets == {"standard", "bronze"}

SignedIn == Len(user) = 1

CustomerSignedIn == SignedIn /\ ~user[1].isAdmin

AdminSignedIn == SignedIn /\ user[1].isAdmin

\* addNotification(userId, ...) when the handler makes that call: the owners of
\* the notifications in the list (fewer than 50 notifications, so slice(0, 50)
\* drops none)
Notified(owners, userId, called) == IF called THEN owners \cup {userId} ELSE owners

\* prev.map(u => u.id === id ? updatedUser : u)
ReplaceUser(us, id, updatedUser) ==
    [i \in 1..Len(us) |-> IF us[i].id = id THEN updatedUser ELSE us[i]]

adminUser ==
    [id |-> "AD01", phone |-> "0877203996", isAdmin |-> TRUE, rank |-> "diamond",
     rankProgress |-> 10, totalLimit |-> 500000000, balance |-> 500000000,
     lastLoanSeq |-> 0, pendingUpgradeRank |-> "none"]

HandleLoginAdmin ==
    /\ ~reconPending
    /\ ~SignedIn
    /\ user' = <<adminUser>>
    /\ pre' = NoPass
    /\ UNCHANGED <<registerError, notifications>>
    /\ UNCHANGED <<today, loans, registeredUsers, systemBudget, rankProfit,
                   reconPending>>

\* registeredUsers.find(u => u.phone === phone)
FindByPhone(us, phone) ==
    LET hits == {i \in 1..Len(us) : us[i].phone = phone}
    IN IF hits = {} THEN <<>>
       ELSE <<us[CHOOSE i \in hits : \A j \in hits : i <= j]>>

HandleLogin(phone) ==
    /\ ~reconPending
    /\ ~SignedIn
    /\ Len(FindByPhone(registeredUsers, phone)) = 1
    /\ user' = FindByPhone(registeredUsers, phone)
    /\ pre' = NoPass
    /\ UNCHANGED <<registerError, notifications>>
    /\ UNCHANGED <<today, loans, registeredUsers, systemBudget, rankProfit,
                   reconPending>>

HandleLogout ==
    /\ ~reconPending
    /\ SignedIn
    /\ user' = <<>>
    /\ pre' = NoPass
    /\ UNCHANGED <<registerError, notifications>>
    /\ UNCHANGED <<today, loans, registeredUsers, systemBudget, rankProfit,
                   reconPending>>

NewUser(id, phone) ==
    [id |-> id, phone |-> phone, isAdmin |-> FALSE, rank |-> "standard",
     rankProgress |-> 0, totalLimit |-> RegisterLimit, balance |-> RegisterLimit,
     lastLoanSeq |-> 0, pendingUpgradeRank |-> "none"]

\* a mutant: the phone is not looked up
HandleRegisterNoLookup(id, phone) ==
    /\ ~reconPending
    /\ ~SignedIn
    /\ pre' = NoPass
    /\ UNCHANGED notifications
    /\ Len(registeredUsers) < MaxUsers
    /\ registerError' = FALSE
    /\ registeredUsers' = Append(registeredUsers, NewUser(id, phone))
    /\ user' = <<NewUser(id, phone)>>
    /\ reconPending' = TRUE
    /\ UNCHANGED <<today, loans, systemBudget, rankProfit>>

HandleRegister(id, phone) ==
    /\ ~reconPending
    /\ ~SignedIn
    /\ pre' = NoPass
    /\ UNCHANGED notifications
    /\ IF Len(FindByPhone(registeredUsers, phone)) = 1
       THEN /\ registerError' = TRUE
            /\ UNCHANGED <<today, loans, registeredUsers, user, systemBudget,
                           rankProfit, reconPending>>
       ELSE /\ Len(registeredUsers) < MaxUsers
            /\ registerError' = FALSE
            /\ registeredUsers' = Append(registeredUsers, NewUser(id, phone))
            /\ user' = <<NewUser(id, phone)>>
            /\ reconPending' = TRUE
            /\ UNCHANGED <<today, loans, systemBudget, rankProfit>>

\* onNavigateRegister of the login view: the message is cleared
NavigateRegister ==
    /\ ~reconPending
    /\ ~SignedIn
    /\ registerError
    /\ registerError' = FALSE
    /\ pre' = NoPass
    /\ UNCHANGED notifications
    /\ UNCHANGED <<today, loans, registeredUsers, user, systemBudget, rankProfit,
                   reconPending>>

\* the due date of a loan applied for on day now
LoanDueDate(now) ==
    LET nextMonth1st == DateOf(GetFullYear(now), GetMonth(now) + 1, 1)
        diffDays == nextMonth1st - now
        finalDate == IF diffDays < NearMonthEnd
                     THEN DateOf(GetFullYear(now), GetMonth(now) + 2, 1)
                     ELSE nextMonth1st
    IN ToLocaleDateString(finalDate)

NewLoan(me, amount, now) ==
    [id |-> <<me.id, me.lastLoanSeq + 1>>, userId |-> me.id, amount |-> amount,
     date |-> LoanDueDate(now), status |-> "CHO DUYET", fine |-> 0]

HandleApplyLoan(amount) ==
    /\ ~reconPending
    /\ CustomerSignedIn
    /\ Len(loans) < MaxLoans
    /\ user[1].lastLoanSeq < MaxSeq
    /\ LET updatedUser == [user[1] EXCEPT !.balance = @ - amount,
                                          !.lastLoanSeq = @ + 1]
       IN /\ loans' = <<NewLoan(user[1], amount, today)>> \o loans
          /\ user' = <<updatedUser>>
          /\ registeredUsers' = ReplaceUser(registeredUsers, user[1].id, updatedUser)
    /\ reconPending' = TRUE
    /\ pre' = NoPass
    /\ UNCHANGED <<registerError, notifications>>
    /\ UNCHANGED <<today, systemBudget, rankProfit>>

HandleUpgradeRank(targetRank) ==
    /\ ~reconPending
    /\ CustomerSignedIn
    /\ LET updatedUser == [user[1] EXCEPT !.pendingUpgradeRank = targetRank]
       IN /\ user' = <<updatedUser>>
          /\ registeredUsers' = ReplaceUser(registeredUsers, user[1].id, updatedUser)
    /\ reconPending' = TRUE
    /\ pre' = NoPass
    /\ UNCHANGED <<registerError, notifications>>
    /\ UNCHANGED <<today, loans, systemBudget, rankProfit>>

HandleSettleLoan(loanId) ==
    /\ ~reconPending
    /\ CustomerSignedIn
    /\ \E i \in 1..Len(loans) : loans[i].id = loanId /\ loans[i].userId = user[1].id
    /\ loans' = [i \in 1..Len(loans) |->
                    IF loans[i].id = loanId
                    THEN [loans[i] EXCEPT !.status = "CHO TAT TOAN"]
                    ELSE loans[i]]
    /\ reconPending' = TRUE
    /\ pre' = NoPass
    /\ UNCHANGED <<registerError, notifications>>
    /\ UNCHANGED <<today, registeredUsers, user, systemBudget, rankProfit>>

\* loans.find(l => l.id === loanId)
FindLoan(ls, loanId) ==
    LET hits == {i \in 1..Len(ls) : ls[i].id = loanId}
    IN IF hits = {} THEN <<>>
       ELSE <<ls[CHOOSE i \in hits : \A j \in hits : i <= j]>>

\* a mutant: a rejected settlement bill ends the loan like any rejection
NewStatusRejectEnds(status, action) ==
    IF action = "REJECT" THEN "BI TU CHOI"
    ELSE IF action = "APPROVE" THEN "DA DUYET"
    ELSE IF action = "DISBURSE" THEN "DANG NO"
    ELSE IF action = "SETTLE" THEN "DA TAT TOAN"
    ELSE status

NewStatus(status, action) ==
    IF action = "REJECT"
    THEN (IF status = "CHO TAT TOAN" THEN "DANG NO" ELSE "BI TU CHOI")
    ELSE IF action = "APPROVE" THEN "DA DUYET"
    ELSE IF action = "DISBURSE" THEN "DANG NO"
    ELSE IF action = "SETTLE" THEN "DA TAT TOAN"
    ELSE status

\* a mutant: the action also wipes the accrued fine
ActedLoanWipesFine(loan, action) ==
    [loan EXCEPT !.status = NewStatus(@, action), !.fine = 0]

\* { ...loan, status: newStatus }
ActedLoan(loan, action) == [loan EXCEPT !.status = NewStatus(@, action)]

\* the budget after the action on a loan of this amount
NewBudget(budget, amount, action) ==
    IF action = "DISBURSE" THEN budget - amount
    ELSE IF action = "SETTLE" THEN budget + amount
    ELSE budget

\* a mutant: a rejected application counts towards the progress like a
\* settlement
RefundedUserRejectCounts(loanUser, loan, action) ==
    IF action = "SETTLE" \/ (action = "REJECT" /\ loan.status # "CHO TAT TOAN")
    THEN [loanUser EXCEPT
            !.balance = Min(loanUser.totalLimit, loanUser.balance + loan.amount),
            !.rankProgress = Min(ProgressCap, loanUser.rankProgress + 1)]
    ELSE loanUser

\* a mutant: the refund is not capped at the limit
RefundedUserNoCap(loanUser, loan, action) ==
    IF action = "SETTLE"
    THEN [loanUser EXCEPT
            !.balance = loanUser.balance + loan.amount,
            !.rankProgress = Min(ProgressCap, loanUser.rankProgress + 1)]
    ELSE IF action = "REJECT" /\ loan.status # "CHO TAT TOAN"
    THEN [loanUser EXCEPT !.balance = loanUser.balance + loan.amount]
    ELSE loanUser

\* a mutant: a settlement raises the progress without the cap
RefundedUserProgressUncapped(loanUser, loan, action) ==
    IF action = "SETTLE"
    THEN [loanUser EXCEPT
            !.balance = Min(loanUser.totalLimit, loanUser.balance + loan.amount),
            !.rankProgress = loanUser.rankProgress + 1]
    ELSE IF action = "REJECT" /\ loan.status # "CHO TAT TOAN"
    THEN [loanUser EXCEPT
            !.balance = Min(loanUser.totalLimit, loanUser.balance + loan.amount)]
    ELSE loanUser

\* the owner's record after the action on the loan; loanUser is the record read
RefundedUser(loanUser, loan, action) ==
    IF action = "SETTLE"
    THEN [loanUser EXCEPT
            !.balance = Min(loanUser.totalLimit, loanUser.balance + loan.amount),
            !.rankProgress = Min(ProgressCap, loanUser.rankProgress + 1)]
    ELSE IF action = "REJECT" /\ loan.status # "CHO TAT TOAN"
    THEN [loanUser EXCEPT
            !.balance = Min(loanUser.totalLimit, loanUser.balance + loan.amount)]
    ELSE loanUser

UpdatesOwner(loan, action) ==
    /\ action = "SETTLE" \/ (action = "REJECT" /\ loan.status # "CHO TAT TOAN")
    /\ Len(FindUser(registeredUsers, loan.userId)) = 1

HandleAdminLoanAction(loanId, action) ==
    /\ ~reconPending
    /\ AdminSignedIn
    /\ Len(FindLoan(loans, loanId)) = 1
    /\ LET targetLoan == FindLoan(loans, loanId)[1]
           updatedUser == RefundedUser(FindUser(registeredUsers, targetLoan.userId)[1],
                                       targetLoan, action)
       IN /\ systemBudget' = NewBudget(systemBudget, targetLoan.amount, action)
          /\ systemBudget' >= InitialBudget - MaxSwing * 1000000
          /\ systemBudget' <= InitialBudget + MaxSwing * 1000000
          /\ loans' = [i \in 1..Len(loans) |->
                          IF loans[i].id = loanId
                          THEN ActedLoan(loans[i], action)
                          ELSE loans[i]]
          /\ IF UpdatesOwner(targetLoan, action)
             THEN /\ registeredUsers' =
                        ReplaceUser(registeredUsers, targetLoan.userId, updatedUser)
                  /\ user' = IF user[1].id = targetLoan.userId
                             THEN <<updatedUser>> ELSE user
             ELSE UNCHANGED <<registeredUsers, user>>
          /\ notifications' = Notified(notifications, targetLoan.userId,
                                       action \in {"DISBURSE", "SETTLE", "REJECT"})
    /\ reconPending' = TRUE
    /\ pre' = NoPass
    /\ UNCHANGED <<today, rankProfit, registerError>>

UpgradeLimit(newRank, old) ==
    IF newRank = "bronze" THEN 3000000
    ELSE IF newRank = "silver" THEN 4000000
    ELSE IF newRank = "gold" THEN 5000000
    ELSE IF newRank = "diamond" THEN 10000000
    ELSE old

\* newLimit * 0.05
UpgradeFee(newLimit) == newLimit \div 20

\* a mutant: the approval hands out the whole new limit
ApprovedUserFullBalance(targetUser) ==
    LET newLimit == UpgradeLimit(targetUser.pendingUpgradeRank, targetUser.totalLimit)
    IN [targetUser EXCEPT
          !.rank = targetUser.pendingUpgradeRank,
          !.totalLimit = newLimit,
          !.balance = newLimit,
          !.pendingUpgradeRank = "none"]

ApprovedUser(targetUser) ==
    LET newLimit == UpgradeLimit(targetUser.pendingUpgradeRank, targetUser.totalLimit)
    IN [targetUser EXCEPT
          !.rank = targetUser.pendingUpgradeRank,
          !.totalLimit = newLimit,
          !.balance = newLimit - (targetUser.totalLimit - targetUser.balance),
          !.pendingUpgradeRank = "none"]

ClearPending(us, userId) ==
    [i \in 1..Len(us) |->
        IF us[i].id = userId THEN [us[i] EXCEPT !.pendingUpgradeRank = "none"]
        ELSE us[i]]

HandleAdminUserAction(userId, action) ==
    /\ ~reconPending
    /\ AdminSignedIn
    /\ Len(FindUser(registeredUsers, userId)) = 1
    /\ IF action = "APPROVE_RANK"
          /\ FindUser(registeredUsers, userId)[1].pendingUpgradeRank # "none"
       THEN LET targetUser == FindUser(registeredUsers, userId)[1]
            IN /\ notifications' = Notified(notifications, userId, TRUE)
               /\ rankProfit' = rankProfit + UpgradeFee(ApprovedUser(targetUser).totalLimit)
               /\ rankProfit' <= MaxProfit
               /\ registeredUsers' =
                     ReplaceUser(registeredUsers, userId, ApprovedUser(targetUser))
               /\ user' = IF user[1].id = userId
                          THEN <<ApprovedUser(targetUser)>> ELSE user
       ELSE /\ notifications' = Notified(notifications, userId, action = "REJECT_RANK")
            /\ registeredUsers' = ClearPending(registeredUsers, userId)
            /\ UNCHANGED <<user, rankProfit>>
    /\ reconPending' = TRUE
    /\ pre' = NoPass
    /\ UNCHANGED <<today, loans, systemBudget, registerError>>

HandleResetRankProfit ==
    /\ ~reconPending
    /\ AdminSignedIn
    /\ rankProfit' = 0
    /\ pre' = NoPass
    /\ UNCHANGED <<registerError, notifications>>
    /\ UNCHANGED <<today, loans, registeredUsers, user, systemBudget,
                   reconPending>>

\* a successful poll that delivers the snapshot this client persisted: the
\* lists are replaced by equal ones, which schedules the effect, and the
\* signed-in user is re-read from the delivered users
FetchData ==
    /\ ~reconPending
    /\ user' = IF SignedIn /\ Len(FindUser(registeredUsers, user[1].id)) = 1
               THEN FindUser(registeredUsers, user[1].id)
               ELSE user
    /\ reconPending' = TRUE
    /\ pre' = NoPass
    /\ UNCHANGED <<registerError, notifications>>
    /\ UNCHANGED <<today, loans, registeredUsers, systemBudget, rankProfit>>

\* midnights pass: the next new Date() is the later day
Tick(day) ==
    /\ day > today
    /\ today' = day
    /\ pre' = NoPass
    /\ UNCHANGED <<registerError, notifications>>
    /\ UNCHANGED <<loans, registeredUsers, user, systemBudget, rankProfit,
                   reconPending>>

\* the server's store: readLocalData() when nothing was written yet
EmptyStore ==
    [users |-> <<>>, loans |-> <<>>, notifications |-> {},
     budget |-> InitialBudget, rankProfit |-> 0]

\* the first fetch attempt has completed against this store, no timer is
\* armed and the browser's storage is empty
Loaded(store) ==
    /\ isInitialized = TRUE
    /\ persistPending = FALSE
    /\ savedUser = <<>>
    /\ server = store
    /\ retries = <<>>
    /\ attempts = 0
    /\ fetched = TRUE
    /\ deleted = {}

\* the days on which the client is looked at: 01/01/2026, 10/02/2026 and
\* 24/12/2026
StartDays == {0}

TickDays == {40, 357}

\* the client once its first fetch attempt has completed against a server
\* that stores nothing yet
Init ==
    /\ today \in StartDays
    /\ loans = <<>>
    /\ registeredUsers = <<>>
    /\ user = <<>>
    /\ systemBudget = InitialBudget
    /\ rankProfit = 0
    /\ notifications = {}
    /\ registerError = FALSE
    /\ reconPending = TRUE
    /\ pre = NoPass
    /\ Loaded(EmptyStore)

\* the phones nobody registered yet
FreshPhones == {p \in Phones : Len(FindByPhone(registeredUsers, p)) = 0}

\* the client alone: the timer, the storage and the server are left out of
\* the picture (SpecNet has them), and so is the registration of a phone that
\* is taken (SpecReg has it)
Next ==
    \/ Reconcile /\ UNCHANGED netVars
    \/ FetchData /\ UNCHANGED netVars
    \/ HandleLoginAdmin /\ UNCHANGED netVars
    \/ HandleLogout /\ UNCHANGED netVars
    \/ \E phone \in Phones : HandleLogin(phone) /\ UNCHANGED netVars
    \/ \E id \in UserIds, phone \in FreshPhones :
          HandleRegister(id, phone) /\ UNCHANGED netVars
    \/ \E amount \in Amounts : HandleApplyLoan(amount) /\ UNCHANGED netVars
    \/ \E targetRank \in UpgradeTargets :
          HandleUpgradeRank(targetRank) /\ UNCHANGED netVars
    \/ \E i \in 1..Len(loans) : HandleSettleLoan(loans[i].id) /\ UNCHANGED netVars
    \/ \E i \in 1..Len(loans), action \in AdminActions :
          HandleAdminLoanAction(loans[i].id, action) /\ UNCHANGED netVars
    \/ \E i \in 1..Len(registeredUsers), action \in {"APPROVE_RANK", "REJECT_RANK"} :
          HandleAdminUserAction(registeredUsers[i].id, action) /\ UNCHANGED netVars
    \/ HandleResetRankProfit /\ UNCHANGED netVars
    \/ \E day \in TickDays : Tick(day) /\ UNCHANGED netVars

Spec == Init /\ [][Next]_vars

-----------------------------------------------------------------------------
(* Registration: two phones, two ids Math.random() may draw, up to two users *)

RegIds == {"1000", "1001"}

RegPhones == {"0900000001", "0900000002"}

NextReg ==
    \/ Reconcile /\ UNCHANGED netVars
    \/ HandleLogout /\ UNCHANGED netVars
    \/ NavigateRegister /\ UNCHANGED netVars
    \/ \E phone \in RegPhones : HandleLogin(phone) /\ UNCHANGED netVars
    \/ \E id \in RegIds, phone \in RegPhones :
          HandleRegister(id, phone) /\ UNCHANGED netVars
    \/ \E targetRank \in UpgradeTargets :
          HandleUpgradeRank(targetRank) /\ UNCHANGED netVars

SpecReg == Init /\ [][NextReg]_vars

-----------------------------------------------------------------------------
(* The reconciliation engine on drawn inputs: (today, loans, users) *)

EngineDays == {31, 32, 36, 41, 61, 332}

EngineAmounts == {1000000, 2000000}

EngineFines == {0, 5000, 700000}

EngineUser(id, isAdmin, rank, progress, balance) ==
    [id |-> id, phone |-> id, isAdmin |-> isAdmin, rank |-> rank,
     rankProgress |-> progress, totalLimit |-> RankLimit(rank, 0),
     balance |-> balance, lastLoanSeq |-> 0, pendingUpgradeRank |-> "none"]

EngineLoan(uid, seq, amount, date, status, fine) ==
    [id |-> <<uid, seq>>, userId |-> uid, amount |-> amount, date |-> date,
     status |-> status, fine |-> fine]

\* the user under study: every rank and progress
EngineFirstUsers ==
    {EngineUser("1000", FALSE, r, p, RankLimit(r, 0) - 200000) :
        r \in Ranks, p \in 0..ProgressCap}

\* that user's first loan, due 01/02/2026
EngineFirstLoans ==
    {EngineLoan("1000", 1, amt, <<1, 2, 2026>>, st, f) :
        amt \in EngineAmounts, st \in {s \in Statuses : IsActiveStatus(s)},
        f \in EngineFines}
    \cup {EngineLoan("1000", 1, 1000000, <<1, 2, 2026>>, st, f) :
        st \in {s \in Statuses : ~IsActiveStatus(s)}, f \in EngineFines}

\* the rest of the snapshot: a second user (a customer or an admin record) and
\* further loans
EngineOthers ==
    {[users |-> <<EngineUser("1001", FALSE, "gold", 7, 5000000)>>, loans |-> <<>>],
     [users |-> <<EngineUser("1001", FALSE, "gold", 7, 5000000)>>,
      loans |-> <<EngineLoan("1000", 2, 1000000, <<1, 3, 2026>>, "DANG NO", 5000)>>],
     [users |-> <<EngineUser("1001", FALSE, "silver", 3, 4000000)>>,
      loans |-> <<EngineLoan("1001", 1, 1000000, <<1, 2, 2026>>, "CHO TAT TOAN", 0)>>],
     [users |-> <<EngineUser("1001", TRUE, "gold", 7, 5000000)>>,
      loans |-> <<EngineLoan("1001", 1, 1000000, <<1, 2, 2026>>, "DANG NO", 0)>>]}

\* the lists as a poll or a handler left them; the pass does not look at the
\* timer, the storage or the server, which are held as in Init
InitRecon ==
    /\ today \in EngineDays
    /\ \E u \in EngineFirstUsers, l \in EngineFirstLoans, o \in EngineOthers :
          /\ registeredUsers = <<u>> \o o.users
          /\ loans = <<l>> \o o.loans
          /\ user \in IF o.loans = <<>> THEN {<<>>, <<u>>} ELSE {<<u>>}
    /\ systemBudget = InitialBudget
    /\ rankProfit = 0
    /\ notifications = {}
    /\ registerError = FALSE
    /\ reconPending = TRUE
    /\ pre = NoPass
    /\ Loaded(EmptyStore)

NextRecon == Reconcile /\ UNCHANGED netVars

SpecRecon == InitRecon /\ [][NextRecon]_vars

\* Snapshots with an active loan whose due date does not parse: "2026-02-01"
\* (no slash) and "01/xx/2026"
BadDates == {<<NaN, NaN, NaN>>, <<1, NaN, 2026>>}

InitBadDate ==
    /\ today \in EngineDays
    /\ \E u \in EngineFirstUsers, amt \in EngineAmounts, date \in BadDates,
          st \in {x \in Statuses : IsActiveStatus(x)}, f \in EngineFines :
          /\ registeredUsers = <<u>>
          /\ loans = <<EngineLoan("1000", 1, amt, date, st, f)>>
          /\ user = <<u>>
    /\ systemBudget = InitialBudget
    /\ rankProfit = 0
    /\ notifications = {}
    /\ registerError = FALSE
    /\ reconPending = TRUE
    /\ pre = NoPass
    /\ Loaded(EmptyStore)

SpecBadDate == InitBadDate /\ [][NextRecon]_vars

\* React runs a scheduled effect: a pending pass is not postponed for ever.
\* This is weak fairness of Reconcile written out: a pass is possible exactly
\* when reconPending holds, and every pass changes the state.
ReconcileFair == []<>(~reconPending) \/ []<><<Reconcile>>_vars

SpecReconLive == SpecRecon /\ ReconcileFair

-----------------------------------------------------------------------------
(* The client with its server: mount, polls, the debounced persist.  The     *)
(* server keeps its data in the local file (no Firestore configured), where  *)
(* a POST replaces the stored list.                                          *)

\* the reconciliation effect before the first fetch attempt has completed:
\* if (!isInitialized) return
EffectReturns ==
    /\ reconPending
    /\ ~isInitialized
    /\ reconPending' = FALSE
    /\ pre' = NoPass
    /\ UNCHANGED <<today, loans, registeredUsers, user, systemBudget, rankProfit,
                   notifications, registerError, netVars>>

\* fetchData(retries = 3)
FetchRetries == 3

\* setInterval(fetchData, 10000) fires: a new call with all its retries (one
\* call is followed at a time)
PollFires ==
    /\ retries = <<>>
    /\ retries' = <<FetchRetries>>
    /\ attempts' = 0
    /\ pre' = NoPass
    /\ UNCHANGED <<today, loans, registeredUsers, user, systemBudget, rankProfit,
                   notifications, registerError, isInitialized, reconPending,
                   persistPending, savedUser, server, fetched, deleted>>

\* the user setUser receives after a successful fetch: the stored record with
\* the saved id, else the saved record itself when it is an admin's
FetchedUser(me, saved, users) ==
    IF Len(saved) = 1
    THEN IF Len(FindUser(users, saved[1].id)) = 1 THEN FindUser(users, saved[1].id)
         ELSE IF saved[1].isAdmin THEN saved
         ELSE me
    ELSE me

\* a fetch attempt that succeeds: the client's lists, budget and profit are
\* replaced by the server's, the session user is re-read, and finally
\* isInitialized is set; the changed lists schedule both effects
FetchOk ==
    /\ ~reconPending
    /\ retries # <<>>
    /\ registeredUsers' = server.users
    /\ loans' = server.loans
    /\ notifications' = server.notifications
    /\ systemBudget' = server.budget
    /\ rankProfit' = server.rankProfit
    /\ user' = FetchedUser(user, savedUser, server.users)
    /\ isInitialized' = TRUE
    /\ reconPending' = TRUE
    /\ persistPending' = TRUE
    /\ retries' = <<>>
    /\ attempts' = attempts + 1
    /\ fetched' = TRUE
    /\ pre' = NoPass
    /\ UNCHANGED <<today, registerError, savedUser, server, deleted>>

\* a fetch attempt whose /api/data answer was taken and whose
\* /api/firebase-status request then threw: the lists are replaced, the session
\* user is not re-read, catch counts the attempt as failed
FetchStatusFail ==
    /\ ~reconPending
    /\ retries # <<>>
    /\ registeredUsers' = server.users
    /\ loans' = server.loans
    /\ notifications' = server.notifications
    /\ systemBudget' = server.budget
    /\ rankProfit' = server.rankProfit
    /\ isInitialized' = TRUE
    /\ reconPending' = TRUE
    /\ persistPending' = TRUE
    /\ retries' = IF retries[1] > 0 THEN <<retries[1] - 1>> ELSE <<>>
    /\ attempts' = attempts + 1
    /\ fetched' = TRUE
    /\ pre' = NoPass
    /\ UNCHANGED <<today, user, registerError, savedUser, server, deleted>>

\* a mutant: a failed attempt is retried without counting down
FetchFailKeepsRetrying ==
    /\ ~reconPending
    /\ retries # <<>>
    /\ isInitialized' = TRUE
    /\ reconPending' = ~isInitialized
    /\ persistPending' = (persistPending \/ ~isInitialized)
    /\ retries' = retries
    /\ attempts' = attempts + 1
    /\ pre' = NoPass
    /\ UNCHANGED <<today, loans, registeredUsers, user, systemBudget, rankProfit,
                   notifications, registerError, savedUser, server, fetched,
                   deleted>>

\* a fetch attempt that fails: catch schedules the next attempt while retries
\* are left, finally sets isInitialized; the effects are scheduled when
\* isInitialized changes
FetchFail ==
    /\ ~reconPending
    /\ retries # <<>>
    /\ isInitialized' = TRUE
    /\ reconPending' = ~isInitialized
    /\ persistPending' = (persistPending \/ ~isInitialized)
    /\ retries' = IF retries[1] > 0 THEN <<retries[1] - 1>> ELSE <<>>
    /\ attempts' = attempts + 1
    /\ pre' = NoPass
    /\ UNCHANGED <<today, loans, registeredUsers, user, systemBudget, rankProfit,
                   notifications, registerError, savedUser, server, fetched,
                   deleted>>

\* the timer fires: the session user goes to the browser's storage and the
\* lists, budget and profit to the server
Persist ==
    /\ persistPending
    /\ ~reconPending
    /\ savedUser' = user
    /\ server' = [users |-> registeredUsers, loans |-> loans,
                  notifications |-> notifications,
                  budget |-> systemBudget, rankProfit |-> rankProfit]
    /\ persistPending' = FALSE
    /\ pre' = NoPass
    /\ UNCHANGED <<today, loans, registeredUsers, user, systemBudget, rankProfit,
                   notifications, registerError, isInitialized, reconPending,
                   retries, attempts, fetched, deleted>>

\* a dependency of the persist effect changed (compared by value)
ClientChanged ==
    \/ user' # user
    \/ loans' # loans
    \/ registeredUsers' # registeredUsers
    \/ notifications' # notifications
    \/ systemBudget' # systemBudget
    \/ rankProfit' # rankProfit

\* the persist effect after a step of the client: a changed dependency clears
\* the timer and, once initialized, arms it again
Arms ==
    /\ persistPending' = IF ClientChanged THEN isInitialized ELSE persistPending
    /\ UNCHANGED <<isInitialized, savedUser, server, retries, attempts, fetched,
                   deleted>>

\* DELETE /api/users/:id: the user, the user's loans and notifications leave
\* the store
StoreWithout(store, userId) ==
    [store EXCEPT
        !.users = SelectSeq(@, LAMBDA u : u.id # userId),
        !.loans = SelectSeq(@, LAMBDA l : l.userId # userId),
        !.notifications = @ \ {userId}]

\* handleDeleteUser, the DELETE request answered: the server drops the user,
\* then the client filters its users and loans
HandleDeleteUser(userId) ==
    /\ ~reconPending
    /\ AdminSignedIn
    /\ Len(FindUser(registeredUsers, userId)) = 1
    /\ server' = StoreWithout(server, userId)
    /\ registeredUsers' = SelectSeq(registeredUsers, LAMBDA u : u.id # userId)
    /\ loans' = SelectSeq(loans, LAMBDA l : l.userId # userId)
    /\ reconPending' = TRUE
    /\ persistPending' = isInitialized
    /\ deleted' = deleted \cup {userId}
    /\ pre' = NoPass
    /\ UNCHANGED <<today, user, systemBudget, rankProfit, notifications,
                   registerError, isInitialized, savedUser, retries, attempts,
                   fetched>>

NetIds == {"1001"}

NetPhones == {"0900000001"}

NetAmounts == {1000000}

\* 10/02/2026
NetDays == {40}

\* a customer who registered earlier
NetUser == NewUser("1000", "0900000001")

\* that customer with a loan of 1,000,000 due 01/02/2026
NetDebtor ==
    [NetUser EXCEPT !.balance = 1000000, !.lastLoanSeq = 1, !.rankProgress = 3]

NetStores ==
    {EmptyStore,
     [EmptyStore EXCEPT !.users = <<NetUser>>],
     [EmptyStore EXCEPT
        !.users = <<NetDebtor>>,
        !.loans = <<EngineLoan("1000", 1, 1000000, <<1, 2, 2026>>, "DANG NO", 0)>>,
        !.notifications = {"1000"},
        !.budget = InitialBudget - 1000000]}

\* the component has mounted: nothing is loaded, the first fetch is under way
InitNet ==
    /\ today \in NetDays
    /\ loans = <<>>
    /\ registeredUsers = <<>>
    /\ user = <<>>
    /\ systemBudget = InitialBudget
    /\ rankProfit = 0
    /\ notifications = {}
    /\ registerError = FALSE
    /\ isInitialized = FALSE
    /\ reconPending = TRUE
    /\ persistPending = FALSE
    /\ pre = NoPass
    /\ server \in NetStores
    /\ savedUser \in {<<>>} \cup {<<server.users[i]>> : i \in 1..Len(server.users)}
    /\ retries = <<FetchRetries>>
    /\ attempts = 0
    /\ fetched = FALSE
    /\ deleted = {}

NextNet ==
    \/ EffectReturns
    \/ Reconcile /\ Arms
    \/ PollFires
    \/ FetchOk
    \/ FetchStatusFail
    \/ FetchFail
    \/ Persist
    \/ HandleLoginAdmin /\ Arms
    \/ HandleLogout /\ Arms
    \/ \E i \in 1..Len(registeredUsers) : HandleDeleteUser(registeredUsers[i].id)
    \/ \E phone \in NetPhones : HandleLogin(phone) /\ Arms
    \/ \E id \in NetIds, phone \in NetPhones : HandleRegister(id, phone) /\ Arms
    \/ \E amount \in NetAmounts : HandleApplyLoan(amount) /\ Arms

SpecNet == InitNet /\ [][NextNet]_vars

SpecNetLive == SpecNet /\ ReconcileFair

-----------------------------------------------------------------------------
(* Properties of one reconciliation pass.  pre holds what the pass read;     *)
(* loans and registeredUsers hold what it wrote.                             *)

PassDone == pre.passes >= 1

PassUsers == IF PassDone THEN 1..Len(pre.users) ELSE {}

PassLoans == IF PassDone THEN 1..Len(pre.loans) ELSE {}

\* the overdue days the pass saw for the user it read at position i
PassDays(i) == MaxDiffDays(pre.users[i].id, pre.loans, pre.today)

\* the demotion scale: 11 points per rank below diamond, diamond at 44
ScoreOf(r, p) == IF r = "diamond" THEN 44 ELSE 11 * (RankIdx(r) - 1) + p

RankAtScore(s) == rankOrder[(s \div 11) + 1]

ProgressAtScore(s) == s % 11

\* C1: a second pass in a row, on the first pass's output and with the same
\* today, changes no loan's fine and no user's rank, rankProgress, totalLimit
\* or balance.
C1_Idempotent ==
    (pre.passes = 2 /\ pre.today = today) =>
        /\ \A i \in PassLoans : loans[i].fine = pre.loans[i].fine
        /\ \A i \in PassUsers :
              /\ registeredUsers[i].rank = pre.users[i].rank
              /\ registeredUsers[i].rankProgress = pre.users[i].rankProgress
              /\ registeredUsers[i].totalLimit = pre.users[i].totalLimit
              /\ registeredUsers[i].balance = pre.users[i].balance

\* C2: after a pass, an active loan that was overdue by d days has the fine
\* min(30% of amount, floor(amount * d / 1000)): it is the largest whole
\* number below both amount * d / 1000 and 30% of the amount.
C2_FineFormula ==
    \A i \in PassLoans :
        LET a == pre.loans[i].amount
            d == pre.today - ParseDueDate(pre.loans[i].date)
            f == loans[i].fine
        IN (IsActiveStatus(pre.loans[i].status) /\ d > 0) =>
              /\ 10 * f <= 3 * a
              /\ 1000 * f <= a * d
              /\ (10 * f = 3 * a \/ 1000 * (f + 1) > a * d)

C2_Witness ==
    /\ PassDone
    /\ pre.today = 36
    /\ pre.loans[1].amount = 2000000
    /\ pre.loans[1].date = <<1, 2, 2026>>
    /\ pre.loans[1].status = "DANG NO"
    /\ pre.loans[1].fine = 0
    /\ loans[1].fine = 10000

\* C3: from loans created without a fine, no reachable state holds a fine
\* above 30% of the loan's amount.
C3_FineCap ==
    \A i \in 1..Len(loans) : 10 * loans[i].fine <= 3 * loans[i].amount

C3_Witness ==
    \E i \in 1..Len(loans) :
        /\ IsActiveStatus(loans[i].status)
        /\ today - ParseDueDate(loans[i].date) > 300
        /\ 10 * loans[i].fine = 3 * loans[i].amount
        /\ 1000 * loans[i].fine < loans[i].amount * (today - ParseDueDate(loans[i].date))

\* C4: a pass on or before an active loan's due date leaves the stored fine
\* as it was, whatever it was.
C4_NoFineBeforeDue ==
    \A i \in PassLoans :
        (IsActiveStatus(pre.loans[i].status)
            /\ pre.today <= ParseDueDate(pre.loans[i].date))
        => loans[i].fine = pre.loans[i].fine

C4_Witness ==
    /\ PassDone
    /\ pre.today = ParseDueDate(pre.loans[1].date)
    /\ IsActiveStatus(pre.loans[1].status)
    /\ pre.loans[1].fine = 700000
    /\ loans[1].fine = 700000
    /\ Len(pre.loans) = 2
    /\ pre.today < ParseDueDate(pre.loans[2].date)
    /\ loans[2].fine = 5000

\* the k-th loan counted from the end of the list (new loans go to the front)
FromEnd(ls, k) == ls[Len(ls) + 1 - k]

C6_MultiLevel ==
    \A i \in PassUsers :
        LET u == pre.users[i]
            v == registeredUsers[i]
            d == PassDays(i)
            rest == d - (u.rankProgress + 1)
            below == 11 * (RankIdx(u.rank) - 2) + 10
        IN (~u.isAdmin /\ u.rank \in {"bronze", "silver", "gold"} /\ d > u.rankProgress)
            => /\ RankIdx(v.rank) < RankIdx(u.rank)
               /\ v.rank = RankAtScore(Max(0, below - rest))
               /\ v.rankProgress = ProgressAtScore(Max(0, below - rest))

C6_Witness ==
    /\ PassDone
    /\ pre.users[1].rank = "gold"
    /\ pre.users[1].rankProgress = 2
    /\ PassDays(1) = 5
    /\ registeredUsers[1].rank = "silver"
    /\ registeredUsers[1].rankProgress = 8

\* C7: a bronze, silver or gold user with progress p and 0 < d <= p overdue
\* days keeps the rank and gets progress p - d.
C7_Absorption ==
    \A i \in PassUsers :
        LET u == pre.users[i]
            v == registeredUsers[i]
            d == PassDays(i)
        IN (~u.isAdmin /\ u.rank \in {"bronze", "silver", "gold"}
                /\ 0 < d /\ d <= u.rankProgress)
            => (v.rank = u.rank /\ v.rankProgress = u.rankProgress - d)

C7_Witness ==
    /\ PassDone
    /\ pre.users[1].rank = "gold"
    /\ pre.users[1].rankProgress = 7
    /\ PassDays(1) = 5
    /\ registeredUsers[1].rank = "gold"
    /\ registeredUsers[1].rankProgress = 2

\* C8: a diamond user with d >= 1 overdue days ends where gold with progress
\* 10 and d - 1 days ends, whatever the stored progress; with d = 1 that is
\* gold with progress 10.
C8_Diamond ==
    \A i \in PassUsers :
        LET u == pre.users[i]
            v == registeredUsers[i]
            d == PassDays(i)
        IN (~u.isAdmin /\ u.rank = "diamond" /\ d >= 1)
            => /\ v.rank = RankAtScore(Max(0, 43 - (d - 1)))
               /\ v.rankProgress = ProgressAtScore(Max(0, 43 - (d - 1)))
               /\ (d = 1 => (v.rank = "gold" /\ v.rankProgress = 10))

C8_Witness ==
    /\ PassDone
    /\ pre.users[1].rank = "diamond"
    /\ pre.users[1].rankProgress = 3
    /\ PassDays(1) = 1
    /\ registeredUsers[1].rank = "gold"
    /\ registeredUsers[1].rankProgress = 10

\* C9: a standard user with progress p and d overdue days stays standard with
\* progress max(0, p - d); a walk that reaches standard with r days left ends
\* with progress max(0, 10 - r); no pass leaves a negative progress.
C9_StandardFloor ==
    \A i \in PassUsers :
        LET u == pre.users[i]
            v == registeredUsers[i]
            d == PassDays(i)
            r == d - (ScoreOf(u.rank, u.rankProgress) - 10)
        IN /\ v.rankProgress >= 0
           /\ (~u.isAdmin /\ u.rank = "standard" /\ d > 0)
                => (v.rank = "standard" /\ v.rankProgress = Max(0, u.rankProgress - d))
           /\ (~u.isAdmin /\ u.rank # "standard" /\ v.rank = "standard")
                => v.rankProgress = Max(0, 10 - r)

C9_Witness ==
    /\ PassDone
    /\ pre.users[1].rank = "standard"
    /\ pre.users[1].rankProgress = 3
    /\ PassDays(1) = 10
    /\ registeredUsers[1].rank = "standard"
    /\ registeredUsers[1].rankProgress = 0

C9_WitnessArrival ==
    /\ PassDone
    /\ pre.users[1].rank = "silver"
    /\ PassDays(1) = 30
    /\ registeredUsers[1].rank = "standard"
    /\ registeredUsers[1].rankProgress = 0

\* C10: a pass never raises a user's rank and, where the rank stays, never
\* raises the progress.
C10_NeverPromotes ==
    \A i \in PassUsers :
        LET u == pre.users[i]
            v == registeredUsers[i]
        IN /\ RankIdx(v.rank) <= RankIdx(u.rank)
           /\ (v.rank = u.rank => v.rankProgress <= u.rankProgress)

C10_Witness ==
    /\ PassDone
    /\ PassDays(1) > 0
    /\ RankIdx(registeredUsers[1].rank) < RankIdx(pre.users[1].rank)
    /\ Len(pre.users) = 2
    /\ PassDays(2) > 0
    /\ ~pre.users[2].isAdmin
    /\ registeredUsers[2].rank = pre.users[2].rank
    /\ registeredUsers[2].rankProgress < pre.users[2].rankProgress

-----------------------------------------------------------------------------
(* Limits, balances and the frame of a pass *)

\* the rank-to-limit table of the specification
LimitTable ==
    [standard |-> 2000000, bronze |-> 3000000, silver |-> 4000000,
     gold |-> 5000000, diamond |-> 10000000]

LiveStatuses == {"DANG NO", "CHO TAT TOAN", "DANG GIAI NGAN"}

InertStatuses == {"CHO DUYET", "DA DUYET", "DA TAT TOAN", "BI TU CHOI"}

\* the overdue-day counts, at the pass, of the active loans owned by the user
\* read at position i
OwnOverdue(i) ==
    {pre.today - ParseDueDate(pre.loans[j].date) :
        j \in {k \in PassLoans : /\ pre.loans[k].userId = pre.users[i].id
                                 /\ pre.loans[k].status \in LiveStatuses
                                 /\ pre.today > ParseDueDate(pre.loans[k].date)}}

\* where a user ends after d overdue days, on the demotion scale
ExpectedScore(u, d) == Max(0, ScoreOf(u.rank, u.rankProgress) - d)

\* C11: a user whose (rank, rankProgress) a pass changed has the table limit
\* of the new rank and the balance min(new limit, balance before the pass).
C11_LimitAndClamp ==
    \A i \in PassUsers :
        LET u == pre.users[i]
            v == registeredUsers[i]
        IN (v.rank # u.rank \/ v.rankProgress # u.rankProgress)
            => /\ v.totalLimit = LimitTable[v.rank]
               /\ v.balance = Min(v.totalLimit, u.balance)

C11_Witness ==
    /\ PassDone
    /\ pre.users[1].rank = "gold"
    /\ pre.users[1].balance = 4800000
    /\ registeredUsers[1].rank = "silver"
    /\ registeredUsers[1].totalLimit = 4000000
    /\ registeredUsers[1].balance = 4000000

\* C12: in every reachable state no user, listed or signed in, has a balance
\* above the totalLimit.
C12_BalanceWithinLimit ==
    /\ \A i \in 1..Len(registeredUsers) :
          registeredUsers[i].balance <= registeredUsers[i].totalLimit
    /\ \A i \in 1..Len(user) : user[i].balance <= user[i].totalLimit

\* a user raised to bronze, demoted to standard by a pass, whose settled loan
\* of at least 1,000,000 was refunded up to the limit only
C12_Witness ==
    /\ rankProfit = 150000
    /\ \E i \in 1..Len(registeredUsers), j \in 1..Len(loans) :
          /\ loans[j].userId = registeredUsers[i].id
          /\ loans[j].status = "DA TAT TOAN"
          /\ loans[j].fine > 0
          /\ registeredUsers[i].rank = "standard"
          /\ registeredUsers[i].rankProgress >= 1
          /\ registeredUsers[i].totalLimit = 2000000
          /\ registeredUsers[i].balance = 2000000

\* C13: in every reachable state every non-admin user's totalLimit is the
\* table limit of the user's rank.
C13_LimitFromRank ==
    \A i \in 1..Len(registeredUsers) :
        ~registeredUsers[i].isAdmin
            => registeredUsers[i].totalLimit = LimitTable[registeredUsers[i].rank]

\* C14: in every reachable state every user's rankProgress, listed or signed
\* in, is in 0..10.
C14_ProgressRange ==
    /\ \A i \in 1..Len(registeredUsers) :
          registeredUsers[i].rankProgress \in 0..10
    /\ \A i \in 1..Len(user) : user[i].rankProgress \in 0..10

\* a user whom settlements raised to progress 10, then a pass with 9 overdue
\* days
C14_Witness ==
    /\ PassDone
    /\ Len(pre.users) >= 1
    /\ pre.users[1].rank = "standard"
    /\ pre.users[1].rankProgress = 10
    /\ OwnOverdue(1) = {9}
    /\ registeredUsers[1].rank = "standard"
    /\ registeredUsers[1].rankProgress = 1

\* C15: a user none of whose active loans is past its due date at the pass is
\* the same record after the pass.
C15_NoOverdueNoChange ==
    \A i \in PassUsers : OwnOverdue(i) = {} => registeredUsers[i] = pre.users[i]

C15_Witness ==
    /\ PassDone
    /\ Len(pre.loans) = 2
    /\ pre.loans[1].userId = pre.users[1].id
    /\ pre.loans[1].status = "DANG NO"
    /\ pre.today = ParseDueDate(pre.loans[1].date)
    /\ pre.loans[2].userId = pre.users[1].id
    /\ pre.users[1].rank = "diamond"
    /\ OwnOverdue(1) = {}
    /\ registeredUsers[1] = pre.users[1]
    /\ OwnOverdue(2) = {}
    /\ registeredUsers[2] = pre.users[2]

\* C16: a pass leaves the fine of a loan in a status other than the three
\* active ones as it was, and leaves unchanged a user whose loans past their
\* due date are all in such a status.
C16_OnlyActiveLoans ==
    /\ \A j \in PassLoans :
          pre.loans[j].status \in InertStatuses => loans[j].fine = pre.loans[j].fine
    /\ \A i \in PassUsers :
          (\A j \in PassLoans :
              (pre.loans[j].userId = pre.users[i].id
                  /\ pre.today > ParseDueDate(pre.loans[j].date))
              => pre.loans[j].status \in InertStatuses)
          => registeredUsers[i] = pre.users[i]

C16_Witness ==
    /\ PassDone
    /\ Len(pre.loans) = 1
    /\ pre.loans[1].status = "DA DUYET"
    /\ pre.loans[1].userId = pre.users[1].id
    /\ pre.today - ParseDueDate(pre.loans[1].date) = 301
    /\ pre.loans[1].fine = 5000
    /\ loans[1].fine = 5000
    /\ pre.users[1].rank = "gold"
    /\ registeredUsers[1] = pre.users[1]

\* C17: a user with overdue active loans ends where the largest of their
\* overdue-day counts alone leads: the score less that count, not below 0.
C17_MaxNotSum ==
    \A i \in PassUsers :
        (~pre.users[i].isAdmin /\ OwnOverdue(i) # {})
        => \E m \in OwnOverdue(i) :
              /\ \A d \in OwnOverdue(i) : d <= m
              /\ registeredUsers[i].rank = RankAtScore(ExpectedScore(pre.users[i], m))
              /\ registeredUsers[i].rankProgress =
                    ProgressAtScore(ExpectedScore(pre.users[i], m))

C17_Witness ==
    /\ PassDone
    /\ OwnOverdue(1) = {30, 2}
    /\ pre.users[1].rank = "gold"
    /\ pre.users[1].rankProgress = 7
    /\ registeredUsers[1].rank = "standard"
    /\ registeredUsers[1].rankProgress = 10

\* C18: a pass calls setLoans only if a loan's fine differs after it, and
\* setRegisteredUsers only if a user's (rank, rankProgress) differs; when
\* nothing differs nothing is set and no further pass is scheduled; an entry
\* whose value did not change is the entry that was read.
C18_ChangeDetection ==
    PassDone =>
        /\ pre.setLoans => \E j \in PassLoans : loans[j].fine # pre.loans[j].fine
        /\ pre.setUsers =>
              \E i \in PassUsers :
                  \/ registeredUsers[i].rank # pre.users[i].rank
                  \/ registeredUsers[i].rankProgress # pre.users[i].rankProgress
        /\ (loans = pre.loans /\ registeredUsers = pre.users)
              => (~pre.setLoans /\ ~pre.setUsers /\ ~reconPending)
        /\ \A j \in PassLoans :
              loans[j].fine = pre.loans[j].fine => loans[j] = pre.loans[j]
        /\ \A i \in PassUsers :
              (registeredUsers[i].rank = pre.users[i].rank
                  /\ registeredUsers[i].rankProgress = pre.users[i].rankProgress)
              => registeredUsers[i] = pre.users[i]

\* an overdue active loan whose stored fine is already the computed one, owned
\* by a user already at standard with progress 0: nothing is set
C18_Witness ==
    /\ pre.passes = 1
    /\ Len(pre.loans) = 1
    /\ pre.loans[1].status = "DANG NO"
    /\ pre.loans[1].amount = 1000000
    /\ pre.loans[1].fine = 5000
    /\ OwnOverdue(1) = {5}
    /\ pre.users[1].rank = "standard"
    /\ pre.users[1].rankProgress = 0
    /\ ~pre.setLoans
    /\ ~pre.setUsers
    /\ ~reconPending

\* C19: a pass keeps the number and order of loans and users, and changes
\* nothing but a loan's fine and a user's rank, rankProgress, totalLimit and
\* balance.
C19_Frame ==
    PassDone =>
        /\ Len(loans) = Len(pre.loans)
        /\ Len(registeredUsers) = Len(pre.users)
        /\ \A j \in PassLoans :
              loans[j] = [pre.loans[j] EXCEPT !.fine = loans[j].fine]
        /\ \A i \in PassUsers :
              registeredUsers[i] =
                  [pre.users[i] EXCEPT !.rank = registeredUsers[i].rank,
                                       !.rankProgress = registeredUsers[i].rankProgress,
                                       !.totalLimit = registeredUsers[i].totalLimit,
                                       !.balance = registeredUsers[i].balance]

C19_Witness ==
    /\ PassDone
    /\ Len(pre.loans) = 2
    /\ pre.loans[1].status = "DANG GIAI NGAN"
    /\ loans[1].status = "DANG GIAI NGAN"
    /\ loans[1].fine # pre.loans[1].fine
    /\ loans[2].fine # pre.loans[2].fine
    /\ registeredUsers[1].rank # pre.users[1].rank
    /\ registeredUsers[2] = pre.users[2]

\* C20: what a pass leaves for a user is a function of that user's record and
\* of the loans that user owns: the record itself for an admin or when none
\* of those loans is active and overdue, otherwise the record moved down the
\* scale by the largest of their overdue-day counts.
C20_Independent ==
    \A i \in PassUsers :
        LET u == pre.users[i]
            v == registeredUsers[i]
            s == ExpectedScore(u, SetMax(OwnOverdue(i)))
        IN IF u.isAdmin \/ OwnOverdue(i) = {}
              \/ (RankAtScore(s) = u.rank /\ ProgressAtScore(s) = u.rankProgress)
           THEN v = u
           ELSE v = [u EXCEPT !.rank = RankAtScore(s),
                              !.rankProgress = ProgressAtScore(s),
                              !.totalLimit = LimitTable[RankAtScore(s)],
                              !.balance = Min(LimitTable[RankAtScore(s)], u.balance)]

\* the second user is demoted by their own overdue loan while the first, who
\* owns no overdue active loan, is left alone
C20_Witness ==
    /\ PassDone
    /\ Len(pre.users) = 2
    /\ Len(pre.loans) = 2
    /\ pre.loans[1].userId = pre.users[1].id
    /\ pre.loans[2].userId = pre.users[2].id
    /\ ~pre.users[2].isAdmin
    /\ OwnOverdue(1) = {}
    /\ OwnOverdue(2) = {30}
    /\ pre.users[1].rank = "diamond"
    /\ registeredUsers[1] = pre.users[1]
    /\ registeredUsers[2].rank = "standard"

-----------------------------------------------------------------------------
(* Admin records, the cached user, quiescence and the demotion scale *)

\* C21: a pass leaves every record flagged isAdmin as it was, also when
\* active loans carrying its id are overdue.
C21_AdminUntouched ==
    \A i \in PassUsers : pre.users[i].isAdmin => registeredUsers[i] = pre.users[i]

C21_Witness ==
    /\ PassDone
    /\ Len(pre.users) = 2
    /\ pre.users[2].isAdmin
    /\ OwnOverdue(2) = {30}
    /\ loans[2].fine = 30000
    /\ registeredUsers[2] = pre.users[2]

\* C22: when a non-admin is signed in and the pass updated the record with
\* that id, the cached user has that record's rank, rankProgress, totalLimit
\* and balance after the pass.
C22_CachedUserRefreshed ==
    \A i \in PassUsers :
        (Len(user) = 1 /\ ~user[1].isAdmin
            /\ pre.users[i].id = user[1].id
            /\ registeredUsers[i] # pre.users[i])
        => /\ user[1].rank = registeredUsers[i].rank
           /\ user[1].rankProgress = registeredUsers[i].rankProgress
           /\ user[1].totalLimit = registeredUsers[i].totalLimit
           /\ user[1].balance = registeredUsers[i].balance

C22_Witness ==
    /\ PassDone
    /\ Len(user) = 1
    /\ user[1].id = pre.users[1].id
    /\ pre.users[1].rank = "gold"
    /\ registeredUsers[1].rank = "silver"
    /\ user[1].rank = "silver"
    /\ user[1].balance = 4000000

\* C29: with today and the loans' statuses, amounts and due dates fixed, the
\* passes that the effect's own updates trigger come to an end: from some
\* point on no pass is scheduled.
C29_Quiescence == <>[](~reconPending)

\* two passes changed something and the pass after them changed nothing
C29_Witness ==
    /\ pre.passes = 2
    /\ ~reconPending
    /\ registeredUsers[1].rank = "standard"
    /\ registeredUsers[1].rankProgress = 0
    /\ loans[1].fine = 5000
    /\ OwnOverdue(1) = {5}

\* the states a walk goes through from w until its loop ends
RECURSIVE WalkStatesFrom(_)
WalkStatesFrom(w) ==
    IF w.remaining > 0 /\ w.rank # "standard"
    THEN {w} \cup WalkStatesFrom(WalkBody(w))
    ELSE {w, StandardClamp(w)}

\* C30: a pass with d > 0 overdue days moves a user to the score
\* max(0, score - d), with score = 11 * rankIndex + rankProgress below
\* diamond and 44 at diamond; in the walk the remaining days are never
\* negative and the rank is always one of the ladder.
C30_ClampedSubtraction ==
    \A i \in PassUsers :
        LET u == pre.users[i]
            v == registeredUsers[i]
            d == SetMax(OwnOverdue(i))
            from == IF u.rank = "diamond" THEN 44
                    ELSE 11 * (RankIdx(u.rank) - 1) + u.rankProgress
            to == 11 * (RankIdx(v.rank) - 1) + v.rankProgress
        IN (~u.isAdmin /\ d > 0)
            => /\ to = Max(0, from - d)
               /\ v.rankProgress \in 0..10
               /\ \A w \in WalkStatesFrom(DiamondStep(WalkState(u.rank, u.rankProgress, d))) :
                     w.remaining >= 0 /\ w.rank \in Ranks

C30_Witness ==
    /\ PassDone
    /\ pre.users[1].rank = "diamond"
    /\ pre.users[1].rankProgress = 3
    /\ OwnOverdue(1) = {30, 2}
    /\ registeredUsers[1].rank = "bronze"
    /\ registeredUsers[1].rankProgress = 3

\* C23: a pass that reads an active loan whose due date does not parse into
\* day, month and year numbers raises an error: it does not complete.
C23_MalformedDateRaises ==
    ~(/\ PassDone
      /\ \E j \in PassLoans :
            /\ pre.loans[j].status \in LiveStatuses
            /\ \E k \in 1..3 : pre.loans[j].date[k] = NaN)

-----------------------------------------------------------------------------
(* Loan lifecycle and who changes rank and progress *)

\* C24: a loan is created with status CHO DUYET, and no step changes the
\* status of a loan that is DA TAT TOAN or BI TU CHOI.
C24_Lifecycle ==
    [][/\ Len(loans') > Len(loans) => loans'[1].status = "CHO DUYET"
       /\ \A k \in 1..Len(loans) :
             (k <= Len(loans')
                /\ FromEnd(loans, k).status \in {"DA TAT TOAN", "BI TU CHOI"})
             => FromEnd(loans', k).status = FromEnd(loans, k).status]_vars

\* every user listed before and after the step keeps rank and rankProgress
RankPairKept ==
    \A i \in 1..Len(registeredUsers) :
        i <= Len(registeredUsers')
        => /\ registeredUsers'[i].rank = registeredUsers[i].rank
           /\ registeredUsers'[i].rankProgress = registeredUsers[i].rankProgress

ApproveRankStep ==
    \E i \in 1..Len(registeredUsers) :
        HandleAdminUserAction(registeredUsers[i].id, "APPROVE_RANK")

\* an admin SETTLE: ranks are kept, and the only progress that may differ is
\* the loan owner's, raised by 1 up to 10
SettleRaisesStep ==
    \E j \in 1..Len(loans) :
        /\ HandleAdminLoanAction(loans[j].id, "SETTLE")
        /\ \A i \in 1..Len(registeredUsers) :
              /\ registeredUsers'[i].rank = registeredUsers[i].rank
              /\ \/ registeredUsers'[i].rankProgress = registeredUsers[i].rankProgress
                 \/ /\ registeredUsers[i].id = loans[j].userId
                    /\ registeredUsers'[i].rankProgress =
                          Min(10, registeredUsers[i].rankProgress + 1)

-----------------------------------------------------------------------------
(* Registration *)

\* the step is a registration that added a user
Registered ==
    /\ Len(registeredUsers') = Len(registeredUsers) + 1
    /\ \A i \in 1..Len(registeredUsers) : registeredUsers'[i] = registeredUsers[i]

\* C28: registration appends a non-admin user with rank standard, progress 0,
\* lastLoanSeq 0 and balance = totalLimit = 2,000,000 and signs that user in;
\* registering a phone that is taken sets the register error and leaves the
\* list and the session user unchanged; no registration adds a phone that is
\* listed, and no two listed users with different ids share a phone.
C28_Registration ==
    /\ [][Registered =>
            LET u == registeredUsers'[Len(registeredUsers')]
            IN /\ ~u.isAdmin
               /\ u.rank = "standard"
               /\ u.rankProgress = 0
               /\ u.lastLoanSeq = 0
               /\ u.balance = 2000000
               /\ u.totalLimit = 2000000
               /\ user' = <<u>>
               /\ ~registerError'
               /\ \A i \in 1..Len(registeredUsers) : registeredUsers[i].phone # u.phone]_vars
    /\ [][\A id \in RegIds, phone \in RegPhones :
            (HandleRegister(id, phone) /\ Len(FindByPhone(registeredUsers, phone)) = 1)
            => (registerError' /\ UNCHANGED <<registeredUsers, user>>)]_vars
    /\ [](\A i, j \in 1..Len(registeredUsers) :
            (/\ registeredUsers[i].phone = registeredUsers[j].phone
             /\ registeredUsers[i].id # registeredUsers[j].id) => i = j)

\* two users are listed, the signed-out visitor tried a taken phone and the
\* message is set
C28_Witness ==
    /\ Len(registeredUsers) = 2
    /\ registeredUsers[1].phone # registeredUsers[2].phone
    /\ registeredUsers[1].id # registeredUsers[2].id
    /\ ~SignedIn
    /\ registerError

-----------------------------------------------------------------------------
(* The client and its server *)

\* C26: no step lowers the lastLoanSeq of a listed user, and the id of the
\* loan handleApplyLoan adds differs from the id of every loan in the
\* client's list and in the server's.
C26_SeqMonotone ==
    [][/\ \A i \in 1..Len(registeredUsers), j \in 1..Len(registeredUsers') :
             registeredUsers'[j].id = registeredUsers[i].id
             => registeredUsers'[j].lastLoanSeq >= registeredUsers[i].lastLoanSeq
       /\ \A amount \in NetAmounts :
             HandleApplyLoan(amount)
             => /\ \A k \in 1..Len(loans) : loans[k].id # loans'[1].id
                /\ \A k \in 1..Len(server.loans) : server.loans[k].id # loans'[1].id]_vars

\* C27: no pass is done before the first fetch attempt has completed, and
\* only a fetch attempt sets isInitialized; a successful poll puts the
\* server's lists into the client and schedules the pass; while the pass is
\* scheduled the lists stay as they are until the pass reads them; and a
\* scheduled pass is done.
C27_PollThenPass ==
    /\ [](PassDone => isInitialized)
    /\ [][(~isInitialized /\ isInitialized')
            => (FetchOk \/ FetchStatusFail \/ FetchFail)]_vars
    /\ [][FetchOk => /\ reconPending' /\ isInitialized'
                     /\ loans' = server.loans
                     /\ registeredUsers' = server.users]_vars
    /\ [][(reconPending /\ isInitialized)
            => \/ UNCHANGED <<loans, registeredUsers>>
               \/ /\ pre'.passes >= 1
                  /\ pre'.loans = loans
                  /\ pre'.users = registeredUsers]_vars
    /\ ((reconPending /\ isInitialized) ~> PassDone)

\* a pass has read the users and the overdue loan a poll delivered, and has
\* charged the fine
C27_Witness ==
    /\ PassDone
    /\ isInitialized
    /\ pre.loans = server.loans
    /\ pre.users = server.users
    /\ Len(pre.loans) = 1
    /\ pre.setLoans
    /\ loans[1].fine > 0

-----------------------------------------------------------------------------
(* The admin's actions: rejection, budget, exposure, rank upgrade *)

\* C34: REJECT on a CHO TAT TOAN loan makes it DANG NO and leaves every user
\* as it was; REJECT on a loan in any other status makes it BI TU CHOI and
\* sets the owner's balance to min(totalLimit, balance + amount).
C34_Reject ==
    [][\A j \in 1..Len(loans) :
          HandleAdminLoanAction(loans[j].id, "REJECT")
          => IF loans[j].status = "CHO TAT TOAN"
             THEN /\ loans'[j].status = "DANG NO"
                  /\ registeredUsers' = registeredUsers
             ELSE /\ loans'[j].status = "BI TU CHOI"
                  /\ \A i \in 1..Len(registeredUsers) :
                        registeredUsers[i].id = loans[j].userId
                        => registeredUsers'[i].balance =
                              Min(registeredUsers[i].totalLimit,
                                  registeredUsers[i].balance + loans[j].amount)]_vars

\* right after the admin rejected an application: the owner has the whole
\* limit again
C34_Witness ==
    /\ pre.passes = 0
    /\ reconPending
    /\ AdminSignedIn
    /\ \E i \in 1..Len(registeredUsers), j \in 1..Len(loans) :
          /\ loans[j].userId = registeredUsers[i].id
          /\ loans[j].status = "BI TU CHOI"
          /\ registeredUsers[i].balance = registeredUsers[i].totalLimit
          /\ registeredUsers[i].rankProgress = 0

\* the amounts lent out: loans that are DANG NO or CHO TAT TOAN
LentOut ==
    LET RECURSIVE Sum(_)
        Sum(k) == IF k = 0 THEN 0
                  ELSE Sum(k - 1)
                       + (IF loans[k].status \in {"DANG NO", "CHO TAT TOAN"}
                          THEN loans[k].amount ELSE 0)
    IN Sum(Len(loans))

\* C35: systemBudget plus the amounts lent out is the initial budget (the
\* client of Spec makes no manual budget adjustment).
C35_BudgetConserved == systemBudget + LentOut = InitialBudget

\* the amounts of the user's loans that are neither DA TAT TOAN nor BI TU CHOI
OpenAmount(uid) ==
    LET RECURSIVE Sum(_)
        Sum(k) == IF k = 0 THEN 0
                  ELSE Sum(k - 1)
                       + (IF /\ loans[k].userId = uid
                             /\ loans[k].status \notin {"DA TAT TOAN", "BI TU CHOI"}
                          THEN loans[k].amount ELSE 0)
    IN Sum(Len(loans))

\* C36: for every non-admin user, balance plus the amounts of the user's open
\* loans is at most totalLimit.
C36_ExposureBounded ==
    \A i \in 1..Len(registeredUsers) :
        ~registeredUsers[i].isAdmin
        => registeredUsers[i].balance + OpenAmount(registeredUsers[i].id)
              <= registeredUsers[i].totalLimit

\* C37: approving a pending upgrade keeps totalLimit - balance, clears
\* pendingUpgradeRank and adds 5% of the new limit to rankProfit; rejecting
\* an upgrade clears pendingUpgradeRank and leaves rank, totalLimit, balance
\* and rankProfit as they were.
C37_UpgradeApproval ==
    [][\A i \in 1..Len(registeredUsers) :
          LET u == registeredUsers[i]
              v == registeredUsers'[i]
          IN /\ (HandleAdminUserAction(u.id, "APPROVE_RANK")
                   /\ u.pendingUpgradeRank # "none")
                => /\ v.totalLimit - v.balance = u.totalLimit - u.balance
                   /\ v.pendingUpgradeRank = "none"
                   /\ v.rank = u.pendingUpgradeRank
                   /\ 20 * (rankProfit' - rankProfit) = v.totalLimit
             /\ HandleAdminUserAction(u.id, "REJECT_RANK")
                => /\ v.pendingUpgradeRank = "none"
                   /\ v.rank = u.rank
                   /\ v.totalLimit = u.totalLimit
                   /\ v.balance = u.balance
                   /\ rankProfit' = rankProfit]_vars

\* right after the admin approved bronze for a user who had used 1,000,000 of
\* the standard limit
C37_Witness ==
    /\ pre.passes = 0
    /\ reconPending
    /\ AdminSignedIn
    /\ rankProfit = 150000
    /\ \E i \in 1..Len(registeredUsers) :
          /\ registeredUsers[i].rank = "bronze"
          /\ registeredUsers[i].totalLimit = 3000000
          /\ registeredUsers[i].balance = 2000000
          /\ registeredUsers[i].pendingUpgradeRank = "none"

(* Loading, persisting and deleting *)

\* C33: a fetchData call makes at most four attempts, one retry per failed
\* attempt: the attempts made and the retries left add up to three while the
\* call is running, a successful attempt ends the call, so does the fourth
\* failure, and isInitialized is true once an attempt has completed.
C33_Counts ==
    /\ attempts \in 0..(FetchRetries + 1)
    /\ retries # <<>> => /\ retries[1] \in 0..FetchRetries
                         /\ attempts + retries[1] = FetchRetries
    /\ attempts >= 1 => isInitialized

C33_FetchAttempts ==
    /\ []C33_Counts
    /\ [][(FetchOk => retries' = <<>>)
          /\ ((FetchFail /\ attempts = FetchRetries) => retries' = <<>>)
          /\ ((FetchFail /\ attempts < FetchRetries) => retries' = <<retries[1] - 1>>)]_vars

C33_Witness ==
    /\ attempts = FetchRetries + 1
    /\ retries = <<>>
    /\ ~fetched
    /\ isInitialized

\* C31: the client sends nothing to the server before it has loaded a
\* snapshot: a persist only happens after a fetch attempt has taken the
\* server's data.
C31_NoPersistBeforeLoad == [][Persist => fetched]_vars

\* C32: no local change is lost to polling: when a poll's answer arrives while
\* a persist is still due, every loan and every user the client holds is still
\* in the client's lists afterwards, so that the persist can send it.
C32_KeptAcrossPoll ==
    [][(FetchOk /\ fetched /\ persistPending) =>
          /\ \A i \in 1..Len(loans) :
                \E j \in 1..Len(loans') : loans'[j].id = loans[i].id
          /\ \A i \in 1..Len(registeredUsers) :
                \E j \in 1..Len(registeredUsers') :
                    registeredUsers'[j].id = registeredUsers[i].id]_vars

\* C38: a deleted user stays deleted: after a persist, the server holds no
\* user, loan or notification of a user that was deleted and has not
\* registered again.
C38_DeletedStaysDeleted ==
    [][Persist =>
          \A id \in deleted :
              Len(FindUser(registeredUsers, id)) = 0
                  => StoreWithout(server', id) = server']_vars

====
